---- MODULE Spec2Model ----
(***************************************************************************)
(* A model of pyteomics/mzxml.py: the peak decoder _decode_peaks and the   *)
(* record post-processing of MzXML._get_info_smart.                        *)
(*                                                                         *)
(* Text (Python str) is a sequence of one-character strings, a byte buffer *)
(* a sequence of numbers 0..255, a dict a function from field names to     *)
(* values.  The outcome of a call is a record whose field exc is "none"    *)
(* for a normal return and the name of the raised exception otherwise.     *)
(***************************************************************************)
EXTENDS Integers, Sequences, FiniteSets, TLC

\* Most 4-byte elements of a generated peak buffer.
MaxVals == 4
\* Longest generated retentionTime text (the documented example is added).
MaxRTLen == 2

RECURSIVE Pow2(_)
Pow2(n) == IF n = 0 THEN 1 ELSE 2 * Pow2(n - 1)

(***************************************************************************)
(* base64.b64decode(content), validate=False: binascii.a2b_base64 without  *)
(* strict mode.  Characters outside the alphabet are skipped, a pad ends   *)
(* the input once it completes a quad, leftover characters are an error.   *)
(***************************************************************************)
B64Alphabet ==
  << "A","B","C","D","E","F","G","H","I","J","K","L","M","N","O","P",
     "Q","R","S","T","U","V","W","X","Y","Z","a","b","c","d","e","f",
     "g","h","i","j","k","l","m","n","o","p","q","r","s","t","u","v",
     "w","x","y","z","0","1","2","3","4","5","6","7","8","9","+","/" >>

B64Chars == { B64Alphabet[i] : i \in 1..64 }

B64Value(c) == (CHOOSE i \in 1..64 : B64Alphabet[i] = c) - 1

\* A character str.encode('ascii') cannot encode.
NonAsciiChar == "U+00E9"

RECURSIVE a2b_base64(_, _, _, _, _)
a2b_base64(s, quad_pos, leftchar, pads, out) ==
  IF s = <<>>
  THEN IF quad_pos = 0
       THEN [exc |-> "none", data |-> out]
       ELSE [exc |-> "binascii.Error", data |-> <<>>]
  ELSE LET c == Head(s)
           rest == Tail(s)
       IN IF c = "="
          THEN IF quad_pos >= 2 /\ quad_pos + pads + 1 >= 4
               THEN [exc |-> "none", data |-> out]
               ELSE a2b_base64(rest, quad_pos, leftchar,
                               IF quad_pos >= 2 THEN pads + 1 ELSE pads, out)
          ELSE IF c \notin B64Chars
          THEN a2b_base64(rest, quad_pos, leftchar, pads, out)
          ELSE LET v == B64Value(c)
               IN CASE quad_pos = 0 -> a2b_base64(rest, 1, v, 0, out)
                    [] quad_pos = 1 ->
                         a2b_base64(rest, 2, v % 16, 0,
                                    Append(out, leftchar * 4 + (v \div 16)))
                    [] quad_pos = 2 ->
                         a2b_base64(rest, 3, v % 4, 0,
                                    Append(out, leftchar * 16 + (v \div 4)))
                    [] OTHER ->
                         a2b_base64(rest, 0, 0, 0,
                                    Append(out, leftchar * 64 + v))

\* peaks_data.encode('ascii') followed by base64.b64decode.
b64decode(peaks_data) ==
  IF \E i \in 1..Len(peaks_data) : peaks_data[i] = NonAsciiChar
  THEN [exc |-> "UnicodeEncodeError", data |-> <<>>]
  ELSE a2b_base64(peaks_data, 0, 0, 0, <<>>)

(***************************************************************************)
(* zlib.decompress(data): a zlib stream (RFC 1950) of stored deflate       *)
(* blocks (RFC 1951, BTYPE 00), the form zlib.compress(data, 0) writes.    *)
(* Huffman-coded blocks are outside the model; no generated input has one. *)
(***************************************************************************)
\* An unsigned 32-bit integer is kept as its two 16-bit halves hi and lo.
U32(b) == [hi |-> b[1] * 256 + b[2], lo |-> b[3] * 256 + b[4]]

RECURSIVE adler32(_, _, _)
adler32(data, a, b) ==
  IF data = <<>>
  THEN [hi |-> b, lo |-> a]
  ELSE LET a2 == (a + Head(data)) % 65521
       IN adler32(Tail(data), a2, (b + a2) % 65521)

RECURSIVE inflate_blocks(_, _, _)
inflate_blocks(z, p, out) ==
  IF p > Len(z)
  THEN [exc |-> "zlib.error", data |-> <<>>]
  ELSE LET bfinal == z[p] % 2
           btype == (z[p] \div 2) % 4
       IN IF btype = 3
          THEN [exc |-> "zlib.error", data |-> <<>>]
          ELSE IF btype # 0
          THEN [exc |-> "huffman block", data |-> <<>>]
          ELSE IF p + 4 > Len(z)
          THEN [exc |-> "zlib.error", data |-> <<>>]
          ELSE LET len == z[p + 1] + 256 * z[p + 2]
                   nlen == z[p + 3] + 256 * z[p + 4]
                   q == p + 5 + len
                   out2 == out \o SubSeq(z, p + 5, q - 1)
               IN IF len + nlen # 65535 \/ q - 1 > Len(z)
                  THEN [exc |-> "zlib.error", data |-> <<>>]
                  ELSE IF bfinal = 0
                  THEN inflate_blocks(z, q, out2)
                  ELSE IF q + 3 > Len(z)
                  THEN [exc |-> "zlib.error", data |-> <<>>]
                  ELSE IF U32(SubSeq(z, q, q + 3)) # adler32(out2, 1, 0)
                  THEN [exc |-> "zlib.error", data |-> <<>>]
                  ELSE [exc |-> "none", data |-> out2]

decompress(z) ==
  IF Len(z) < 2
  THEN [exc |-> "zlib.error", data |-> <<>>]
  ELSE IF \/ (z[1] * 256 + z[2]) % 31 # 0
          \/ z[1] % 16 # 8
          \/ z[1] \div 16 > 7
          \/ (z[2] \div 32) % 2 # 0
  THEN [exc |-> "zlib.error", data |-> <<>>]
  ELSE inflate_blocks(z, 3, <<>>)

(***************************************************************************)
(* _decode_peaks, lines 25-28: the byte buffer the elements are read from. *)
(***************************************************************************)
Get(info, key) == IF key \in DOMAIN info THEN info[key] ELSE "None"

NeverInflate(info, data) == [exc |-> "none", data |-> data]

MaybeInflate(info, data) ==
  IF Get(info, "compressionType") = "zlib"
  THEN decompress(data)
  ELSE [exc |-> "none", data |-> data]

Buffer(info, peaks_data) ==
  LET raw == b64decode(peaks_data)
  IN IF raw.exc # "none" THEN raw ELSE MaybeInflate(info, raw.data)

(***************************************************************************)
(* lines 29-34: the element width from the precision, the element count    *)
(* len(data) / prec, and struct.unpack(">%dL" % width, data), which reads  *)
(* 4-byte big-endian elements and raises unless len(data) = 4 * width.     *)
(***************************************************************************)
Prec(info) == IF info["precision"] = "32" THEN 4 ELSE 8

WidthFromCount(info, data) ==
  IF "peaksCount" \in DOMAIN info
  THEN 2 * info["peaksCount"]
  ELSE Len(data) \div Prec(info)

Width(info, data) == Len(data) \div Prec(info)

unpack_L(width, data) ==
  IF Len(data) # 4 * width
  THEN [exc |-> "struct.error", vals |-> <<>>]
  ELSE [exc |-> "none",
        vals |-> [k \in 1..width |-> U32(SubSeq(data, 4 * k - 3, 4 * k))]]

(***************************************************************************)
(* line 39: struct.unpack("f", struct.pack("I", d))[0], the float whose    *)
(* IEEE-754 single bit pattern is d.  A finite value is s, m, e with value *)
(* (-1)^s * m * 2^e and m odd or zero; inf and nan keep sign and fraction. *)
(***************************************************************************)
RECURSIVE Normalize(_, _, _)
Normalize(s, m, e) ==
  IF m = 0 THEN [cls |-> "fin", s |-> s, m |-> 0, e |-> 0]
  ELSE IF m % 2 = 0 THEN Normalize(s, m \div 2, e + 1)
  ELSE [cls |-> "fin", s |-> s, m |-> m, e |-> e]

BitCast(d) ==
  LET sign == d.hi \div Pow2(15)
      expo == (d.hi \div 128) % 256
      frac == (d.hi % 128) * Pow2(16) + d.lo
  IN IF expo = 255
     THEN [cls |-> IF frac = 0 THEN "inf" ELSE "nan", s |-> sign, m |-> frac, e |-> 0]
     ELSE IF expo = 0
     THEN Normalize(sign, frac, -149)
     ELSE Normalize(sign, Pow2(23) + frac, expo - 150)

(***************************************************************************)
(* lines 35-45: values at even positions (0-based) go to mzs, the others   *)
(* to intensities.                                                         *)
(***************************************************************************)
SwappedDeinterleave(vals) ==
  [mz |-> [j \in 1..(Len(vals) \div 2) |-> BitCast(vals[2 * j])],
   int |-> [j \in 1..((Len(vals) + 1) \div 2) |-> BitCast(vals[2 * j - 1])]]

Deinterleave(vals) ==
  [mz |-> [j \in 1..((Len(vals) + 1) \div 2) |-> BitCast(vals[2 * j - 1])],
   int |-> [j \in 1..(Len(vals) \div 2) |-> BitCast(vals[2 * j])]]

Raise(exc) == [exc |-> exc, mz |-> <<>>, int |-> <<>>]

_decode_peaks(info, peaks_data) ==
  LET buf == Buffer(info, peaks_data)
  IN IF buf.exc # "none" THEN Raise(buf.exc)
     ELSE IF "precision" \notin DOMAIN info THEN Raise("KeyError")
     ELSE LET unpacked == unpack_L(Width(info, buf.data), buf.data)
          IN IF unpacked.exc # "none" THEN Raise(unpacked.exc)
             ELSE LET arrays == Deinterleave(unpacked.vals)
                  IN [exc |-> "none", mz |-> arrays.mz, int |-> arrays.int]

(***************************************************************************)
(* The peak text a writer produces (docstring, lines 9-17): interleaved    *)
(* values, potentially compressed, base64 encoded.                         *)
(***************************************************************************)
RECURSIVE b64encode(_)
b64encode(b) ==
  IF b = <<>> THEN <<>>
  ELSE IF Len(b) = 1
  THEN << B64Alphabet[(b[1] \div 4) + 1], B64Alphabet[(b[1] % 4) * 16 + 1], "=", "=" >>
  ELSE IF Len(b) = 2
  THEN << B64Alphabet[(b[1] \div 4) + 1],
          B64Alphabet[(b[1] % 4) * 16 + (b[2] \div 16) + 1],
          B64Alphabet[(b[2] % 16) * 4 + 1], "=" >>
  ELSE << B64Alphabet[(b[1] \div 4) + 1],
          B64Alphabet[(b[1] % 4) * 16 + (b[2] \div 16) + 1],
          B64Alphabet[(b[2] % 16) * 4 + (b[3] \div 64) + 1],
          B64Alphabet[(b[3] % 64) + 1] >> \o b64encode(SubSeq(b, 4, Len(b)))

Bytes32(w) == << w.hi \div 256, w.hi % 256, w.lo \div 256, w.lo % 256 >>

\* zlib.compress(data, 0): one final stored block.
compress(data) ==
  LET len == Len(data)
      nlen == 65535 - len
  IN << 120, 1, 1, len % 256, len \div 256, nlen % 256, nlen \div 256 >>
       \o data \o Bytes32(adler32(data, 1, 0))

\* 100.5, 10.0, 200.25, 5.0, -0.5, +inf and the least subnormal as
\* big-endian IEEE-754 singles.
SampleBytes ==
  << 66, 201, 0, 0,   65, 32, 0, 0,   67, 72, 64, 0,   64, 160, 0, 0,
     191, 0, 0, 0,   127, 128, 0, 0,   0, 0, 0, 1 >>

Buffers ==
  { SubSeq(SampleBytes, 4 * i + 1, 4 * i + n) :
      <<i, n>> \in { p \in (0..6) \X (0..(4 * MaxVals)) : 4 * p[1] + p[2] <= Len(SampleBytes) } }

Payload(enc) ==
  CASE enc.comp = "none" -> enc.buf
    [] enc.comp = "zlib" -> compress(enc.buf)
    [] OTHER -> LET z == compress(enc.buf)
                IN [z EXCEPT ![Len(z)] = (z[Len(z)] + 1) % 256]

Damage(text, d) ==
  CASE d = "intact" -> text
    [] d = "junkFront" -> <<"!">> \o text
    [] d = "junkMid" -> SubSeq(text, 1, Len(text) \div 2) \o <<"!">>
                          \o SubSeq(text, (Len(text) \div 2) + 1, Len(text))
    [] d = "dropLast" -> SubSeq(text, 1, Len(text) - 1)
    [] OTHER -> Append(text, NonAsciiChar)

Render(enc) == Damage(b64encode(Payload(enc)), enc.damage)

Encodings ==
  [buf : Buffers, comp : {"none", "zlib", "zlibBadSum"},
   damage : {"intact", "junkFront", "junkMid", "dropLast", "nonAscii"}]

EmptyDict == [k \in {} |-> "None"]

Put(info, key, val) ==
  [k \in DOMAIN info \cup {key} |-> IF k = key THEN val ELSE info[k]]

Pop(info, key) == [k \in DOMAIN info \ {key} |-> info[k]]

Opt(key, vals) == {EmptyDict} \cup { Put(EmptyDict, key, v) : v \in vals }

Merge(f, g) ==
  [k \in DOMAIN f \cup DOMAIN g |-> IF k \in DOMAIN g THEN g[k] ELSE f[k]]

Counts == {1, 3}

DecodeInfos ==
  { Merge(Merge(p, c), n) :
      <<p, c, n>> \in Opt("precision", {"32", "64"})
                        \X Opt("compressionType", {"none", "zlib"})
                        \X Opt("peaksCount", Counts) }

VARIABLES info, peaks_data, enc, decoded,
          element, kw_recursive, raw_info, recursive, out

dvars == <<info, peaks_data, enc, decoded>>

avars == <<element, kw_recursive, raw_info, recursive, out>>

vars == <<dvars, avars>>

NoCall ==
  /\ element = "scan"
  /\ kw_recursive = "None"
  /\ raw_info = EmptyDict
  /\ recursive = "None"
  /\ out = [exc |-> "pending", rec |-> EmptyDict]

InitDecode ==
  /\ enc \in Encodings
  /\ peaks_data = Render(enc)
  /\ info \in DecodeInfos
  /\ decoded = Raise("pending")
  /\ NoCall

Decode ==
  /\ decoded.exc = "pending"
  /\ decoded' = _decode_peaks(info, peaks_data)
  /\ UNCHANGED <<info, peaks_data, enc, avars>>

SpecDecode == InitDecode /\ [][Decode]_vars

(***************************************************************************)
(* MzXML._get_info_smart.  A field value that the code inspects by type    *)
(* (peaks and the members of a peaks list) carries a type tag.             *)
(***************************************************************************)
Ok(rec) == [exc |-> "none", rec |-> rec]

Fail(exc) == [exc |-> exc, rec |-> EmptyDict]

\* lines 98-107: the recursive argument handed to the element reader.
RecursiveArg(name, rec) ==
  IF rec # "None" THEN rec
  ELSE IF name \in {"mzXML"} THEN "False" ELSE "True"

\* lines 108-109
MoveNumToId(rec) ==
  IF "num" \in DOMAIN rec THEN Pop(Put(rec, "id", rec["num"]), "num") ELSE rec

AliasId(rec) ==
  IF "num" \in DOMAIN rec THEN Put(rec, "id", rec["num"]) ELSE rec

\* lines 110-123
MergePeaksKeepingPeaks(rec) ==
  IF "peaks" \notin DOMAIN rec THEN Ok(rec)
  ELSE LET peaks == rec["peaks"]
       IN IF peaks.type \notin {"dict", "list"}
          THEN LET r == _decode_peaks(Pop(rec, "peaks"), peaks.text)
               IN IF r.exc # "none" THEN Fail(r.exc)
                  ELSE Ok(Put(Put(rec, "m/z array", r.mz), "intensity array", r.int))
          ELSE Fail("KeyError")

MergePeaks(rec) ==
  IF "peaks" \notin DOMAIN rec THEN Ok(rec)
  ELSE LET peaks == rec["peaks"]
           rest == Pop(rec, "peaks")
       IN IF peaks.type \notin {"dict", "list"}
          THEN LET r == _decode_peaks(rest, peaks.text)
               IN IF r.exc # "none" THEN Fail(r.exc)
                  ELSE Ok(Put(Put(rest, "m/z array", r.mz), "intensity array", r.int))
          ELSE IF peaks.type = "dict"
          THEN Fail("KeyError")       \* a dict indexed with 0
          ELSE IF peaks.items = <<>>
          THEN Fail("IndexError")
          ELSE LET child == peaks.items[1]
               IN IF child.type # "dict"
                  THEN Fail("TypeError")     \* a str indexed with a str
                  ELSE IF {"m/z array", "intensity array"} \subseteq DOMAIN child.fields
                  THEN Ok(Put(Put(rest, "m/z array", child.fields["m/z array"]),
                              "intensity array", child.fields["intensity array"]))
                  ELSE Fail("TypeError")     \* KeyError caught, np.array() raises

\* str.strip(chars)
RECURSIVE lstrip(_, _)
lstrip(s, chars) ==
  IF s # <<>> /\ Head(s) \in chars THEN lstrip(Tail(s), chars) ELSE s

RECURSIVE rstrip(_, _)
rstrip(s, chars) ==
  IF s # <<>> /\ s[Len(s)] \in chars
  THEN rstrip(SubSeq(s, 1, Len(s) - 1), chars)
  ELSE s

strip(s, chars) == rstrip(lstrip(s, chars), chars)

(***************************************************************************)
(* float(text) for text over digits, "." and letters: digits with at most  *)
(* one point and at least one digit.  The value is n / 10^d with no        *)
(* trailing zero in the fraction.                                          *)
(***************************************************************************)
DigitChars == <<"0", "1", "2", "3", "4", "5", "6", "7", "8", "9">>

IsDigit(c) == \E i \in 1..10 : DigitChars[i] = c

DigitValue(c) == (CHOOSE i \in 1..10 : DigitChars[i] = c) - 1

RECURSIVE DigitsToInt(_, _)
DigitsToInt(s, acc) ==
  IF s = <<>> THEN acc
  ELSE IF Head(s) = "." THEN DigitsToInt(Tail(s), acc)
  ELSE DigitsToInt(Tail(s), 10 * acc + DigitValue(Head(s)))

RECURSIVE Decimal(_, _)
Decimal(n, d) ==
  IF d > 0 /\ n % 10 = 0 THEN Decimal(n \div 10, d - 1) ELSE [n |-> n, d |-> d]

float(s) ==
  LET points == { i \in 1..Len(s) : s[i] = "." }
      digits == { i \in 1..Len(s) : IsDigit(s[i]) }
  IN IF points \cup digits # 1..Len(s) \/ Cardinality(points) > 1 \/ digits = {}
     THEN [exc |-> "ValueError", val |-> Decimal(0, 0)]
     ELSE [exc |-> "none",
           val |-> Decimal(DigitsToInt(s, 0),
                           IF points = {} THEN 0
                           ELSE Len(s) - (CHOOSE i \in points : TRUE))]

\* lines 125-126
NormalizeRetentionTime(rec) ==
  IF "retentionTime" \notin DOMAIN rec THEN Ok(rec)
  ELSE LET f == float(strip(rec["retentionTime"], {"P", "T", "S"}))
       IN IF f.exc # "none" THEN Fail(f.exc)
          ELSE Ok(Put(rec, "retentionTime", f.val))

\* lines 108-127 applied to the record the element reader returned
PostProcess(raw) ==
  LET merged == MergePeaks(AliasId(raw))
  IN IF merged.exc # "none" THEN merged ELSE NormalizeRetentionTime(merged.rec)

(***************************************************************************)
(* The records the element reader (self._get_info) may return.             *)
(***************************************************************************)
RTChars == {"P", "T", "S", "1", "."}

RECURSIVE Texts(_, _)
Texts(chars, n) ==
  IF n = 0 THEN {<<>>}
  ELSE LET shorter == Texts(chars, n - 1)
       IN shorter \cup { Append(t, c) : <<t, c>> \in shorter \X chars }

RTExample == <<"P", "T", "1", "2", "3", ".", "4", "5", "S">>

RetentionTimes == Texts(RTChars, MaxRTLen) \cup {RTExample}

\* A peaks value: its type, its text when a str, its members when a list
\* (a dict is kept as its own single member).
Child(type, fields) == [type |-> type, fields |-> fields]

Str(text) == [type |-> "str", text |-> text, items |-> <<>>]

Dict(d) == [type |-> "dict", text |-> <<>>, items |-> <<Child("dict", d)>>]

List(l) == [type |-> "list", text |-> <<>>, items |-> l]

SampleArrays ==
  Put(Put(EmptyDict, "m/z array", <<BitCast(U32(<<66, 201, 0, 0>>))>>),
      "intensity array", <<BitCast(U32(<<65, 32, 0, 0>>))>>)

PeaksValues ==
  { Str(Render([buf |-> b, comp |-> "none", damage |-> d])) :
      <<b, d>> \in { SubSeq(SampleBytes, 1, 16), SubSeq(SampleBytes, 1, 4),
                     SubSeq(SampleBytes, 1, 3), <<>> }
                   \X {"intact", "junkFront"} }
  \cup { Dict(SampleArrays), Dict(EmptyDict),
         List(<<>>), List(<<Child("dict", SampleArrays)>>),
         List(<<Child("dict", EmptyDict)>>),
         List(<<Child("dict", Pop(SampleArrays, "intensity array"))>>),
         List(<<Child("dict", SampleArrays), Child("dict", EmptyDict)>>),
         List(<<Child("str", EmptyDict)>>) }

RawInfos ==
  { Merge(Merge(Merge(Merge([msLevel |-> "1", precision |-> "32"], n), i), p), t) :
      <<n, i, p, t>> \in Opt("num", {"7"}) \X Opt("id", {"old"})
                           \X Opt("peaks", PeaksValues)
                           \X Opt("retentionTime", RetentionTimes) }

NoDecode ==
  /\ enc = [buf |-> <<>>, comp |-> "none", damage |-> "intact"]
  /\ peaks_data = <<>>
  /\ info = EmptyDict
  /\ decoded = Raise("pending")

InitAssemble ==
  /\ NoDecode
  /\ element \in {"mzXML", "scan"}
  /\ kw_recursive \in {"None", "True", "False"}
  /\ raw_info \in RawInfos
  /\ recursive = "None"
  /\ out = [exc |-> "pending", rec |-> EmptyDict]

GetInfoSmart ==
  /\ out.exc = "pending"
  /\ recursive' = RecursiveArg(element, kw_recursive)
  /\ out' = PostProcess(raw_info)
  /\ UNCHANGED <<element, kw_recursive, raw_info, dvars>>

SpecAssemble == InitAssemble /\ [][GetInfoSmart]_vars

(***************************************************************************)
(* Properties of _decode_peaks, checked under SpecDecode.                  *)
(***************************************************************************)
Returned == decoded.exc = "none"

Called == decoded.exc # "pending"

HasPrecision(p) == "precision" \in DOMAIN info /\ info["precision"] = p

\* "QskAAEEgAABDSEAAQKAAAA==": the pairs (100.5, 10.0), (200.25, 5.0) as
\* big-endian singles, uncompressed.
ExampleText ==
  << "Q","s","k","A","A","E","E","g","A","A","B","D",
     "S","E","A","A","Q","K","A","A","A","A","=","=" >>

Float(m, e) == [cls |-> "fin", s |-> 0, m |-> m, e |-> e]

\* C1: at 32-bit precision a successful decode returns as m/z array the
\* values of the 4-byte elements at even positions of the decoded buffer and
\* as intensity array those at odd positions, each in buffer order; the
\* documented example text yields [100.5, 200.25] and [10.0, 5.0].
C1_Deinterleaved ==
  (Returned /\ HasPrecision("32")) =>
    LET data == Buffer(info, peaks_data).data
        n == Len(data) \div 4
    IN /\ Len(decoded.mz) = (n + 1) \div 2
       /\ Len(decoded.int) = n \div 2
       /\ \A j \in 1..Len(decoded.mz) :
            decoded.mz[j] = BitCast(U32(SubSeq(data, 8 * j - 7, 8 * j - 4)))
       /\ \A j \in 1..Len(decoded.int) :
            decoded.int[j] = BitCast(U32(SubSeq(data, 8 * j - 3, 8 * j)))
       /\ (peaks_data = ExampleText /\ Get(info, "compressionType") # "zlib") =>
            /\ decoded.mz = <<Float(201, -1), Float(801, -2)>>
            /\ decoded.int = <<Float(5, 1), Float(5, 0)>>

C1_Witness ==
  /\ Returned
  /\ HasPrecision("32")
  /\ peaks_data = ExampleText
  /\ Len(decoded.mz) = 2
  /\ Len(decoded.int) = 2

\* C2: a buffer whose length is not a multiple of two elements of the
\* precision's width is rejected, so a successful decode returns arrays of
\* equal length.
C2_OddCountRejected ==
  (Called /\ "precision" \in DOMAIN info /\ Buffer(info, peaks_data).exc = "none") =>
     /\ Len(Buffer(info, peaks_data).data) % (2 * Prec(info)) # 0
          => decoded.exc = "struct.error"
     /\ Returned => Len(decoded.mz) = Len(decoded.int)

\* C3: the buffer is read as 4-byte elements at precision 32 and as 8-byte
\* elements at precision 64, so a non-empty buffer of k whole elements
\* decodes to k values.
C3_PrecisionSetsWidth ==
  (Called /\ "precision" \in DOMAIN info /\ Buffer(info, peaks_data).exc = "none") =>
     LET data == Buffer(info, peaks_data).data
     IN (data # <<>> /\ Len(data) % Prec(info) = 0) =>
          /\ Returned
          /\ Len(decoded.mz) + Len(decoded.int) = Len(data) \div Prec(info)

ValidBase64(text) ==
  /\ Len(text) % 4 = 0
  /\ \A i \in 1..Len(text) :
       \/ text[i] \in B64Chars
       \/ /\ text[i] = "="
          /\ i >= Len(text) - 1
          /\ text[Len(text)] = "="

\* C4: text that is not valid base64 (a character outside the alphabet,
\* wrong padding) is rejected with an error: it never decodes to a pair of
\* arrays, empty or not.
C4_InvalidBase64Rejected ==
  (Called /\ ~ValidBase64(peaks_data)) => ~Returned

WithCompression(i, c) ==
  IF c = "None" THEN Pop(i, "compressionType") ELSE Put(i, "compressionType", c)

\* C8: the zlib-compressed encoding of a buffer decoded with compressionType
\* zlib gives the outcome of its plain encoding decoded with compressionType
\* none or absent (arrays at 32-bit precision for whole elements); the
\* buffer is inflated when compressionType is zlib and read as it is
\* otherwise.
C8_CompressionTransparent ==
  (Called /\ enc.damage = "intact") =>
    /\ (enc.comp = "zlib" /\ Get(info, "compressionType") = "zlib") =>
         /\ \A c \in {"None", "none"} :
              decoded = _decode_peaks(WithCompression(info, c), b64encode(enc.buf))
         /\ (HasPrecision("32") /\ Len(enc.buf) % 4 = 0) =>
              /\ Returned
              /\ Len(decoded.mz) + Len(decoded.int) = Len(enc.buf) \div 4
    /\ (enc.comp = "none" /\ Get(info, "compressionType") = "zlib") =>
         decoded.exc = "zlib.error"
    /\ (enc.comp = "zlib" /\ Get(info, "compressionType") # "zlib"
          /\ HasPrecision("32")) =>
         IF (Len(enc.buf) + 11) % 4 = 0
         THEN Returned /\ Len(decoded.mz) + Len(decoded.int) = (Len(enc.buf) + 11) \div 4
         ELSE decoded.exc = "struct.error"

C8_Witness ==
  /\ Returned
  /\ enc.damage = "intact"
  /\ enc.comp = "zlib"
  /\ Get(info, "compressionType") = "zlib"
  /\ Len(decoded.mz) = 2
  /\ Len(decoded.int) = 2

WithCount(i, c) ==
  IF c = 0 THEN Pop(i, "peaksCount") ELSE Put(i, "peaksCount", c)

\* C9: the outcome does not depend on the declared count: any other
\* peaksCount, or none, gives the same arrays or the same error; the arrays
\* hold every element of the buffer, and a count that differs from the
\* number of points is not an error.
C9_CountAdvisory ==
  Called =>
    /\ \A c \in Counts \cup {0} :
         /\ _decode_peaks(WithCount(info, c), peaks_data) = decoded
         /\ _decode_peaks(Put(WithCount(info, c), "msLevel", "2"), peaks_data) = decoded
    /\ Returned =>
         Len(decoded.mz) + Len(decoded.int)
           = Len(Buffer(info, peaks_data).data) \div 4
    /\ (HasPrecision("32") /\ Buffer(info, peaks_data).exc = "none"
          /\ Len(Buffer(info, peaks_data).data) % 4 = 0) => Returned

C9_Witness ==
  /\ Returned
  /\ "peaksCount" \in DOMAIN info
  /\ Len(decoded.mz) = 2
  /\ Len(decoded.int) = 2
  /\ info["peaksCount"] # 2

(***************************************************************************)
(* Properties of MzXML._get_info_smart, checked under SpecAssemble.        *)
(***************************************************************************)
Assembled == out.exc = "none"

Arrays == {"m/z array", "intensity array"}

StructuredPeaks ==
  /\ "peaks" \in DOMAIN raw_info
  /\ \/ raw_info["peaks"].type = "dict"
     \/ /\ raw_info["peaks"].type = "list"
        /\ raw_info["peaks"].items # <<>>
        /\ \A i \in 1..Len(raw_info["peaks"].items) :
             raw_info["peaks"].items[i].type = "dict"

\* C5: a peaks field that is a child record, or a list of child records,
\* never fails the assembly: the child's arrays are copied up, or two empty
\* arrays are substituted when the child has none.
C5_StructuredPeaksNeverFail ==
  (out.exc # "pending" /\ StructuredPeaks /\ "retentionTime" \notin DOMAIN raw_info) =>
     /\ Assembled
     /\ Arrays \subseteq DOMAIN out.rec
     /\ LET child == raw_info["peaks"].items[1].fields
        IN \A a \in Arrays :
             out.rec[a] = IF Arrays \subseteq DOMAIN child THEN child[a] ELSE <<>>

\* The text left when one leading "PT" and one trailing "S" are removed.
RemoveMarkers(s) ==
  LET a == IF Len(s) >= 2 /\ s[1] = "P" /\ s[2] = "T" THEN SubSeq(s, 3, Len(s)) ELSE s
  IN IF a # <<>> /\ a[Len(a)] = "S" THEN SubSeq(a, 1, Len(a) - 1) ELSE a

\* C6: retentionTime is the number written between one leading "PT" and one
\* trailing "S"; nothing else is removed from the raw text before parsing.
C6_OnlyMarkersRemoved ==
  (Assembled /\ "retentionTime" \in DOMAIN raw_info) =>
     LET f == float(RemoveMarkers(raw_info["retentionTime"]))
     IN /\ f.exc = "none"
        /\ out.rec["retentionTime"] = f.val

\* C7: a record with num is returned with num unchanged and id equal to
\* num; a record without num gets no id from post-processing.
C7_IdAliasesNum ==
  Assembled =>
    IF "num" \in DOMAIN raw_info
    THEN /\ {"num", "id"} \subseteq DOMAIN out.rec
         /\ out.rec["num"] = raw_info["num"]
         /\ out.rec["id"] = raw_info["num"]
    ELSE /\ "num" \notin DOMAIN out.rec
         /\ "id" \in DOMAIN out.rec <=> "id" \in DOMAIN raw_info
         /\ "id" \in DOMAIN raw_info => out.rec["id"] = raw_info["id"]

C7_Witness ==
  /\ Assembled
  /\ "num" \in DOMAIN raw_info
  /\ "id" \in DOMAIN raw_info
  /\ out.rec["id"] = "7"
  /\ out.rec["num"] = "7"

PostProcessed == {"id", "peaks", "retentionTime"} \cup Arrays

\* C10: post-processing adds, removes or changes only id, peaks, the two
\* arrays and retentionTime; a raw record with peaks is returned without
\* peaks and with both arrays.
C10_Frame ==
  Assembled =>
    /\ \A k \in DOMAIN raw_info \ PostProcessed :
         k \in DOMAIN out.rec /\ out.rec[k] = raw_info[k]
    /\ \A k \in DOMAIN out.rec \ PostProcessed : k \in DOMAIN raw_info
    /\ "peaks" \in DOMAIN raw_info =>
         "peaks" \notin DOMAIN out.rec /\ Arrays \subseteq DOMAIN out.rec

C10_Witness ==
  /\ Assembled
  /\ "peaks" \in DOMAIN raw_info
  /\ "retentionTime" \in DOMAIN raw_info
  /\ "num" \in DOMAIN raw_info
  /\ "peaks" \notin DOMAIN out.rec
  /\ out.rec["m/z array"] # <<>>

====
